---------------------------- MODULE Spec2Model ----------------------------
(***************************************************************************)
(* Model of the credit-card chatbot's question-answer cycle:               *)
(*   app.on_message -> CreditCardChatbot.process_question                  *)
(*     -> SQLQueryGenerator.generate_query   (language-service calls)      *)
(*     -> SQLQueryGenerator.execute_query    (store call)                  *)
(*     -> CreditCardChatbot._generate_visualization (chart selection)      *)
(*     -> response_chain.run                 (narration call)              *)
(*                                                                         *)
(* Strings of the source are written in ASCII here:                        *)
(*   "akutibu" = katakana "active"   (query_generator.py:231)              *)
(*   "suii", "torendo", "henka" = the three time-series keywords           *)
(*                                             (chatbot.py:146)            *)
(*   "hikaku", "wariai", "bunpu" = the three comparison keywords           *)
(*                                             (chatbot.py:149)            *)
(*   "fukumu" = a request to include cancelled users                       *)
(* A question is modelled by the set of words it contains: every test the  *)
(* code makes on a question is a substring test (`kw in question`).        *)
(***************************************************************************)
EXTENDS Naturals, Sequences, FiniteSets

\* ------------------------------------------------------------------ bounds
MaxQWords == 2      \* words in one question
MaxRows == 2        \* rows of a result table
MaxCols == 3        \* columns of a result table
MaxCycles == 2      \* question-answer cycles in one run
NumPurchases == 2   \* rows of the purchases table at start

\* --------------------------------------------------------------- questions
\* The words the questions asked here are made of: the active words, the
\* keywords of the two chart families (chatbot.py:146, 149) and the request
\* to include cancelled users.
Words ==
  {"akutibu", "active", "Active",
   "suii", "torendo", "henka",
   "hikaku", "wariai", "bunpu",
   "fukumu"}

Questions == {q \in SUBSET Words : Cardinality(q) <= MaxQWords}

\* str.lower() on one word: only the latin word has upper-case letters
Lower(w) == IF w = "Active" THEN "active" ELSE w

\* `kw in question`
Contains(question, kw) == kw \in question

\* `kw in question.lower()`
ContainsLower(question, kw) == kw \in {Lower(w) : w \in question}

\* Mutant: the latin word is tested without lower().
IsActiveQuestionCaseSensitive(question) ==
  Contains(question, "akutibu") \/ Contains(question, "active")

\* query_generator.py:231
IsActiveQuestion(question) ==
  Contains(question, "akutibu") \/ ContainsLower(question, "active")

\* chatbot.py:146
HasTimeSeriesKeyword(question) ==
  Contains(question, "suii") \/ Contains(question, "torendo")
    \/ Contains(question, "henka")

\* chatbot.py:149
HasComparisonKeyword(question) ==
  Contains(question, "hikaku") \/ Contains(question, "wariai")
    \/ Contains(question, "bunpu")

\* ----------------------------------------------------------------- queries
\* A query text as the language service may write it: the statement kind,
\* whether its activity predicate reads users.is_active, and whether it
\* filters on users.is_cancelled = 0.
Query(stmt, flag, excl) ==
  [stmt |-> stmt, usesActiveFlag |-> flag, excludesCancelled |-> excl]

NoQuery == Query("NONE", FALSE, FALSE)

Queries ==
  { Query("SELECT", FALSE, TRUE),     \* follows the prompt's guidelines
    Query("SELECT", TRUE, TRUE),      \* filters on is_active = 1
    Query("SELECT", FALSE, FALSE),    \* forgets is_cancelled = 0
    Query("DELETE", FALSE, FALSE),    \* a write statement
    Query("INVALID", FALSE, FALSE) }  \* not SQL at all

IsReadQuery(sql) == sql.stmt = "SELECT"

\* ------------------------------------------------ language-service outcomes
LLMFailures == {"RateLimitError"}

QueryOutcomes ==
  {[ok |-> TRUE, query |-> s, msg |-> "none"] : s \in Queries}
    \cup {[ok |-> FALSE, query |-> NoQuery, msg |-> m] : m \in LLMFailures}

NarrationOutcomes ==
  {[ok |-> TRUE, text |-> <<"narrative">>, msg |-> "none"]}
    \cup {[ok |-> FALSE, text |-> <<>>, msg |-> m] : m \in LLMFailures}

\* no table: a call that returned none, or a local not yet assigned
NoResult ==
  [form |-> "none", nrows |-> 0, ncols |-> 0, cols |-> <<>>,
   numeric |-> <<>>, text |-> <<>>]

\* ------------------------------------------------------------------ events
\* One record per call process_question makes, directly or not: the callee,
\* the question and the query text involved (for a language-service call the
\* query it returned), the table the store returned, and how the call ended.
Ev(op, q, sql, res, ok, msg) ==
  [op |-> op, q |-> q, sql |-> sql, res |-> res, ok |-> ok, msg |-> msg]

NoExc == [origin |-> "none", msg |-> "none"]
Exc(origin, msg) == [origin |-> origin, msg |-> msg]

\* ----------------------------------------------------------- generate_query
\* self.custom_chain.run(question=question, table_schema=...)
CustomCall(question, out) ==
  Ev("custom_chain.run", question, out.query, NoResult, out.ok, out.msg)

\* self.chain.invoke(question)
GenericCall(question, out) ==
  Ev("chain.invoke", question, out.query, NoResult, out.ok, out.msg)

Returned(value, log) ==
  [raised |-> FALSE, value |-> value, exc |-> NoExc, log |-> log]

Raised(origin, msg, log) ==
  [raised |-> TRUE, value |-> NoQuery, exc |-> Exc(origin, msg), log |-> log]

\* Mutant: a failed fallback is tried once more.
generate_query_retry(question, customOut, genericOut, fallbackOut) ==
  IF IsActiveQuestion(question)
  THEN IF customOut.ok
       THEN Returned(customOut.query, <<CustomCall(question, customOut)>>)
       ELSE Raised("custom_chain.run", customOut.msg,
                   <<CustomCall(question, customOut)>>)
  ELSE IF genericOut.ok
       THEN Returned(genericOut.query, <<GenericCall(question, genericOut)>>)
       ELSE IF fallbackOut.ok
            THEN Returned(fallbackOut.query,
                          <<GenericCall(question, genericOut),
                            CustomCall(question, fallbackOut)>>)
            ELSE Raised("custom_chain.run (fallback)", fallbackOut.msg,
                        <<GenericCall(question, genericOut),
                          CustomCall(question, fallbackOut),
                          CustomCall(question, fallbackOut)>>)

\* query_generator.py:220-242. customOut, genericOut and fallbackOut are
\* what the three language-service calls do if they are made.
generate_query(question, customOut, genericOut, fallbackOut) ==
  IF IsActiveQuestion(question)
  THEN \* lines 231-233: outside any try
       IF customOut.ok
       THEN Returned(customOut.query, <<CustomCall(question, customOut)>>)
       ELSE Raised("custom_chain.run", customOut.msg,
                   <<CustomCall(question, customOut)>>)
  ELSE IF genericOut.ok
       THEN \* lines 237-238
            Returned(genericOut.query, <<GenericCall(question, genericOut)>>)
       ELSE \* lines 239-242: the handler's own call is not protected
            IF fallbackOut.ok
            THEN Returned(fallbackOut.query,
                          <<GenericCall(question, genericOut),
                            CustomCall(question, fallbackOut)>>)
            ELSE Raised("custom_chain.run (fallback)", fallbackOut.msg,
                        <<GenericCall(question, genericOut),
                          CustomCall(question, fallbackOut)>>)


\* ------------------------------------------------------------------ results
\* The columns of the prompt's example queries (query_generator.py:128-129,
\* 166-170), by position.
DemoCol(i) ==
  CASE i = 1 -> "month"
    [] i = 2 -> "active_users"
    [] i = 3 -> "avg_purchase_amount"
    [] i = 4 -> "category_name"
    [] OTHER -> "amount"

DemoHeader(n) == [i \in 1..n |-> DemoCol(i)]

\* The columns that hold numbers in the store's answers: counts, averages
\* and amounts (query_generator.py:128-129, 166-170); periods, dates and
\* names are text.
IsNumberColumn(c) ==
  c \in {"active_users", "avg_purchase_amount", "amount"}

\* What execute_query hands back: a DataFrame ("df"), a non-empty list of
\* dicts ("dicts"), a non-empty list of row tuples ("tuples", which carry no
\* column names), an empty list ("emptylist") or a string ("str", its text
\* a sequence of pieces).  `numeric` tells, column by column, whether the
\* column pandas makes of it has a numeric dtype.
Rows(form, nrows, ncols, cols, numeric) ==
  [form |-> form, nrows |-> nrows, ncols |-> ncols, cols |-> cols,
   numeric |-> numeric, text |-> <<>>]

\* A table with the given header; a column without rows has dtype object.
Table(form, nrows, cols) ==
  Rows(form, nrows, Len(cols), cols,
       [i \in 1..Len(cols) |-> nrows > 0 /\ IsNumberColumn(cols[i])])

\* A result with the header of the prompt's examples; the fields of row
\* tuples are numbers, as in [(5,)].
Result(form, nrows, ncols, text) ==
  [form |-> form, nrows |-> nrows, ncols |-> ncols,
   cols |-> IF form \in {"df", "dicts"} THEN DemoHeader(ncols) ELSE <<>>,
   numeric |->
     CASE form \in {"df", "dicts"} ->
            [i \in 1..ncols |-> nrows > 0 /\ IsNumberColumn(DemoCol(i))]
       [] form = "tuples" -> [i \in 1..ncols |-> TRUE]
       [] OTHER -> <<>>,
   text |-> text]

\* Row tuples whose fields are text, as in [("food",), ("pets",)].
TextTuples(nrows, ncols) ==
  Rows("tuples", nrows, ncols, <<>>, [i \in 1..ncols |-> FALSE])

StrResult(text) == Result("str", 0, 0, text)

\* Headers of other queries on the same store, with period columns under
\* other names and in other places; "nengetsu" stands for the kanji name
\* "year-month".
OtherHeaders ==
  { <<"month", "purchase_date">>,
    <<"purchase_date", "active_users">>,
    <<"active_users", "nengetsu">>,
    <<"Created_Time", "active_users">>,
    <<"active_users", "month", "purchase_date">>,
    <<"month", "purchase_date", "Created_Time">> }

\* What self.db.run can hand back for a query that ran.
SelectResults ==
  {Result("df", r, c, <<>>) : r \in 0..MaxRows, c \in 0..MaxCols}
    \cup {Result("dicts", r, c, <<>>) : r \in 1..MaxRows, c \in 0..MaxCols}
    \cup {Table(f, MaxRows, h) : f \in {"df", "dicts"}, h \in OtherHeaders}
    \cup {Result("tuples", r, c, <<>>) : r \in 1..MaxRows, c \in 1..MaxCols}
    \cup {TextTuples(r, 1) : r \in 1..MaxRows}
    \cup {Result("emptylist", 0, 0, <<>>)}
    \cup {StrResult(<<>>), StrResult(<<"[(5,)]">>)}

\* -------------------------------------------------------------------- store
\* self.db.run(query): what the store does with a statement.  A text that is
\* not SQL always fails; a SELECT or a DELETE runs, or fails at the store.
StoreOutcomes(sql) ==
  IF sql.stmt = "INVALID"
  THEN {[ok |-> FALSE, result |-> NoResult, msg |-> "syntax error"]}
  ELSE {[ok |-> FALSE, result |-> NoResult, msg |-> "database is locked"]}
         \cup (IF sql.stmt = "SELECT"
               THEN {[ok |-> TRUE, result |-> r, msg |-> "none"] :
                       r \in SelectResults}
               ELSE {[ok |-> TRUE, result |-> StrResult(<<>>), msg |-> "none"]})

\* The purchases table after the store ran the statement.
StoreAfter(sql, out, rows) ==
  IF sql.stmt = "DELETE" /\ out.ok THEN {} ELSE rows

\* ------------------------------------------------------------ execute_query
Executed(value) == [raised |-> FALSE, value |-> value, exc |-> NoExc]

\* Mutant: the handler catches nothing and the store's failure propagates.
execute_query_no_handler(sql, out) ==
  IF out.ok
  THEN Executed(out.result)
  ELSE [raised |-> TRUE, value |-> NoResult, exc |-> Exc("db.run", out.msg)]

\* query_generator.py:244-257: `out` is what self.db.run(query) does.
execute_query(sql, out) ==
  IF out.ok
  THEN Executed(out.result)
  ELSE Executed(StrResult(<<"Error", " executing query: ", out.msg>>))

\* Mutant: the prefix tested is "Error:", which execute_query does not
\* write.
StartsWithErrorColon(text) ==
  Len(text) > 1 /\ text[1] = "Error" /\ text[2] \in {":", ": "}

\* str.startswith("Error").  A text is written as the sequence of its
\* pieces, and the five letters "Error" at the start of a text are always a
\* piece of their own: "Error: x" is <<"Error", ": x">>, "Errors" is
\* <<"Error", "s">>, "error" is <<"error">>.
StartsWithError(text) ==
  Len(text) > 0 /\ Head(text) = "Error"

\* chatbot.py:87
IsErrorResult(query_result) ==
  query_result.form = "str" /\ StartsWithError(query_result.text)

ApologyPrefix == "apology: an error occurred while running the query: "

\* Mutant: the error response leaves the query text out.
ErrorResponseNoQuery(sql, query_result) ==
  [answer |-> <<ApologyPrefix>> \o query_result.text,
   sql_query |-> NoQuery,
   visualization |-> "None"]

\* chatbot.py:88-92
ErrorResponse(sql, query_result) ==
  [answer |-> <<ApologyPrefix>> \o query_result.text,
   sql_query |-> sql,
   visualization |-> "None"]

NoResponse == [answer |-> <<>>, sql_query |-> NoQuery, visualization |-> "None"]

\* ------------------------------------------------------------ visualization
\* chatbot.py:122-138: the result as a DataFrame, or no DataFrame.
Frame(ok, nrows, cols, numeric) ==
  [ok |-> ok, nrows |-> nrows, ncols |-> Len(cols), cols |-> cols,
   numeric |-> numeric]

NoFrame == Frame(FALSE, 0, <<>>, <<>>)

\* Mutant: the rows of a list keep their own width (no columns= argument).
ToDataFrameAnyWidth(query_result) ==
  CASE query_result.form \in {"df", "dicts"} ->
         Frame(TRUE, query_result.nrows, query_result.cols,
               query_result.numeric)
    [] query_result.form = "tuples" ->
         Frame(TRUE, query_result.nrows, DemoHeader(query_result.ncols),
               query_result.numeric)
    [] OTHER -> NoFrame

ToDataFrame(query_result) ==
  CASE query_result.form = "df" ->
         Frame(TRUE, query_result.nrows, query_result.cols,
               query_result.numeric)
    [] query_result.form = "dicts" ->
         Frame(TRUE, query_result.nrows, query_result.cols,
               query_result.numeric)
    [] query_result.form = "tuples" ->
         \* pd.DataFrame(rows, columns=["Value"]) raises unless every row
         \* has one field; the bare except returns None
         IF query_result.ncols = 1
         THEN Frame(TRUE, query_result.nrows, <<"Value">>,
                    query_result.numeric)
         ELSE NoFrame
    [] OTHER -> NoFrame

\* What a plotting routine did: the kind of the chart it returned, the
\* plotting routines entered (each opens a figure with plt.figure), the
\* figures closed (_fig_to_base64 closes one), what supplies the x-axis or
\* the labels (a column, or the row index), the columns drawn as series, in
\* order, and the exception that left the routine, if one did (then no
\* chart is returned and nothing is closed).
Chart(kind, routines, closed, x, series) ==
  [kind |-> kind, routines |-> routines, closed |-> closed, x |-> x,
   series |-> series, raised |-> "none"]

PlotRaised(error, routines) ==
  [kind |-> "None", routines |-> routines, closed |-> 0, x |-> "none",
   series |-> <<>>, raised |-> error]

NoChart == Chart("None", <<>>, 0, "none", <<>>)

RowIndex == "<row index>"

\* col.lower()
ColLower(c) ==
  CASE c = "Created_Time" -> "created_time"
    [] c = "Value" -> "value"
    [] OTHER -> c

\* chatbot.py:163: the keywords "date", "time" and the kanji for month, day
\* and year ("tsuki", "hi", "nen" here).
DateKeywords == {"date", "time", "tsuki", "hi", "nen"}

\* The keywords that are substrings of a lower-cased column name.
KeywordsIn(c) ==
  CASE c = "purchase_date" -> {"date"}
    [] c = "created_time" -> {"time"}
    [] c = "nengetsu" -> {"nen", "tsuki"}
    [] OTHER -> {}

\* chatbot.py:163: any(kw in col.lower() for kw in [...])
IsDateColumn(c) == \E kw \in DateKeywords : kw \in KeywordsIn(ColLower(c))

\* The columns of numeric dtype, in order.
NumericCols(df) ==
  LET IsNum(c) == \E i \in 1..df.ncols : df.cols[i] = c /\ df.numeric[i]
  IN SelectSeq(df.cols, IsNum)

\* chatbot.py:158-189.  plt.plot takes text as categories.
_create_time_series_plot(df) ==
  LET date_cols == SelectSeq(df.cols, IsDateColumn)
  IN IF date_cols # <<>>
     THEN LET date_col == date_cols[1]
              IsValueCol(c) == c # date_col
          IN Chart("line", <<"_create_time_series_plot">>, 1, date_col,
                   SelectSeq(df.cols, IsValueCol))
     ELSE Chart("line", <<"_create_time_series_plot">>, 1, RowIndex, df.cols)

\* Mutant: the first column is the labels whatever the width.
_create_bar_chart_first_labels(df) ==
  IF df.ncols >= 2
  THEN Chart("bar", <<"_create_bar_chart">>, 1, df.cols[1], Tail(df.cols))
  ELSE IF NumericCols(df) = <<>>
  THEN PlotRaised("TypeError", <<"_create_bar_chart">>)
  ELSE Chart("bar", <<"_create_bar_chart">>, 1, RowIndex, NumericCols(df))

\* chatbot.py:209-231
_create_bar_chart(df) ==
  IF df.ncols = 2
  THEN \* lines 213-220: labels = first column, values = second; plt.bar
       \* takes text as categories
       Chart("bar", <<"_create_bar_chart">>, 1, df.cols[1], <<df.cols[2]>>)
  ELSE \* lines 221-225: df.plot(kind='bar') has the index as labels and
       \* draws the numeric columns; without one it raises TypeError ("no
       \* numeric data to plot") and the figure of line 211 stays open
       IF NumericCols(df) = <<>>
       THEN PlotRaised("TypeError", <<"_create_bar_chart">>)
       ELSE Chart("bar", <<"_create_bar_chart">>, 1, RowIndex,
                  NumericCols(df))

\* chatbot.py:191-207
_create_comparison_plot(df) ==
  IF df.ncols = 2
  THEN \* lines 195-202: plt.pie makes floats of the values
       \* (np.asarray(x, np.float32)), which raises ValueError for text
       IF df.nrows > 0 /\ ~df.numeric[2]
       THEN PlotRaised("ValueError", <<"_create_comparison_plot">>)
       ELSE Chart("pie", <<"_create_comparison_plot">>, 1, df.cols[1],
                  <<df.cols[2]>>)
  ELSE \* lines 203-205
       LET bar == _create_bar_chart(df)
       IN [bar EXCEPT !.routines = <<"_create_comparison_plot">> \o @]

\* Mutant: strict comparisons, so that a 1 x 1 table is no scalar.
IsScalarStrict(df) == df.nrows < 1 /\ df.ncols < 1

\* chatbot.py:141
IsScalar(df) == df.nrows <= 1 /\ df.ncols <= 1

\* chatbot.py:110-156: the chart returned, None (NoChart) or the exception
\* of a plotting call, which nothing here catches.
_generate_visualization(question, query_result) ==
  LET df == ToDataFrame(query_result)
  IN IF ~df.ok THEN NoChart
     ELSE IF IsScalar(df) THEN NoChart
     ELSE IF HasTimeSeriesKeyword(question) THEN _create_time_series_plot(df)
     ELSE IF HasComparisonKeyword(question) THEN _create_comparison_plot(df)
     ELSE IF df.nrows > 1 /\ df.ncols >= 2 THEN _create_bar_chart(df)
     ELSE NoChart

\* -------------------------------------------------------------------- state
VARIABLES
  pc,             \* where the cycle stands: idle, generate, execute, executed,
                  \* narrate, returned (process_question returned), raised
                  \* (an exception is propagating out of process_question)
                  \* and, when a language service is slow, translation
                  \* overdue, narration overdue
  question,       \* process_question's argument
  sql_query,      \* chatbot.py:81
  query_result,   \* chatbot.py:84
  visualization,  \* chatbot.py:95, what _generate_visualization did
  response,       \* the dict process_question returns
  exc,            \* the exception propagating, if any
  log,            \* the calls made so far in this cycle, in order
  purchases,      \* the store's purchases table (row ids)
  openFigs,       \* figures open in the plotting library
  cycles,         \* messages received so far
  waiting         \* handlers suspended at app.py:44 (the await of the
                  \* "thinking" message), process_question not yet entered

vars ==
  <<pc, question, sql_query, query_result, visualization, response, exc, log,
    purchases, openFigs, cycles, waiting>>

Init ==
  /\ pc = "idle"
  /\ question = {}
  /\ sql_query = NoQuery
  /\ query_result = NoResult
  /\ visualization = NoChart
  /\ response = NoResponse
  /\ exc = NoExc
  /\ log = <<>>
  /\ purchases = 1..NumPurchases
  /\ openFigs = 0
  /\ cycles = 0
  /\ waiting = 0

\* app.py:35-44: a message arrives while the event loop is free; its
\* handler sends the "thinking" message and is suspended at the await, so
\* that other handlers run before it goes on.
OnMessage ==
  /\ pc = "idle"
  /\ cycles < MaxCycles
  /\ cycles' = cycles + 1
  /\ waiting' = waiting + 1
  /\ UNCHANGED <<pc, question, sql_query, query_result, visualization,
                 response, exc, log, purchases, openFigs>>

\* app.py:47: a suspended handler goes on and enters process_question with
\* its message's text, which is read here; process_question holds the
\* event loop until it ends.
EnterProcessQuestion ==
  /\ pc = "idle"
  /\ waiting > 0
  /\ waiting' = waiting - 1
  /\ \E q \in Questions : question' = q
  /\ pc' = "generate"
  /\ UNCHANGED <<sql_query, query_result, visualization, response, exc, log,
                 purchases, openFigs, cycles>>

\* chatbot.py:81: the call of generate_query, whole, entered at `at`.
GenerateQueryAt(at) ==
  /\ pc = at
  /\ \E c \in QueryOutcomes, g \in QueryOutcomes, f \in QueryOutcomes :
       LET r == generate_query(question, c, g, f)
       IN /\ log' = log \o r.log
          /\ sql_query' = r.value
          /\ exc' = r.exc
          /\ pc' = IF r.raised THEN "raised" ELSE "execute"
  /\ UNCHANGED <<question, query_result, visualization, response, purchases,
                 openFigs, cycles, waiting>>

GenerateQuery == GenerateQueryAt("generate")

\* chatbot.py:84: the call of execute_query, whole; the store runs whatever
\* statement it is given.
ExecuteQuery ==
  /\ pc = "execute"
  /\ \E out \in StoreOutcomes(sql_query) :
       LET r == execute_query(sql_query, out)
       IN /\ query_result' = r.value
          /\ exc' = r.exc
          /\ pc' = IF r.raised THEN "raised" ELSE "executed"
          /\ purchases' = StoreAfter(sql_query, out, purchases)
          /\ log' = Append(log, Ev("db.run", {}, sql_query, out.result,
                                   out.ok, out.msg))
  /\ UNCHANGED <<question, sql_query, visualization, response, openFigs,
                 cycles, waiting>>

\* chatbot.py:87-92: the error branch returns at once.
ReturnError ==
  /\ pc = "executed"
  /\ IsErrorResult(query_result)
  /\ response' = ErrorResponse(sql_query, query_result)
  /\ pc' = "returned"
  /\ UNCHANGED <<question, sql_query, query_result, visualization, exc, log,
                 purchases, openFigs, cycles, waiting>>

\* chatbot.py:95: the call of _generate_visualization, whole, outside any
\* try: the exception of a plotting call leaves process_question.
GenerateVisualization ==
  /\ pc = "executed"
  /\ ~IsErrorResult(query_result)
  /\ LET chart == _generate_visualization(question, query_result)
         ok == chart.raised = "none"
     IN /\ visualization' = chart
        /\ openFigs' = openFigs + Len(chart.routines) - chart.closed
        /\ log' = Append(log, Ev("_generate_visualization", question,
                                 NoQuery, query_result, ok, chart.raised))
        /\ exc' = IF ok THEN exc
                  ELSE Exc("_generate_visualization", chart.raised)
        /\ pc' = IF ok THEN "narrate" ELSE "raised"
  /\ UNCHANGED <<question, sql_query, query_result, response, purchases,
                 cycles, waiting>>

\* chatbot.py:98-108: the narration call, outside any try, and the return,
\* entered at `at`.
NarrateAt(at) ==
  /\ pc = at
  /\ \E n \in NarrationOutcomes :
       /\ log' = Append(log, Ev("response_chain.run", question, sql_query,
                                query_result, n.ok, n.msg))
       /\ IF n.ok
          THEN /\ response' = [answer |-> n.text, sql_query |-> sql_query,
                               visualization |-> visualization.kind]
               /\ exc' = exc
               /\ pc' = "returned"
          ELSE /\ response' = response
               /\ exc' = Exc("response_chain.run", n.msg)
               /\ pc' = "raised"
  /\ UNCHANGED <<question, sql_query, query_result, visualization, purchases,
                 openFigs, cycles, waiting>>

Narrate == NarrateAt("narrate")

\* process_question's locals and the cycle's record end with the cycle.
Forget ==
  /\ pc' = "idle"
  /\ question' = {}
  /\ sql_query' = NoQuery
  /\ query_result' = NoResult
  /\ visualization' = NoChart
  /\ response' = NoResponse
  /\ exc' = NoExc
  /\ log' = <<>>

\* app.py:49-69: the response is packaged and sent.
SendMessage ==
  /\ pc = "returned"
  /\ Forget
  /\ UNCHANGED <<purchases, openFigs, cycles, waiting>>

\* app.py:47: on_message has no handler either; the exception reaches the
\* transport layer, which goes on with the next message.
EscapeToTransport ==
  /\ pc = "raised"
  /\ Forget
  /\ UNCHANGED <<purchases, openFigs, cycles, waiting>>

Next ==
  \/ OnMessage
  \/ EnterProcessQuestion
  \/ GenerateQuery
  \/ ExecuteQuery
  \/ ReturnError
  \/ GenerateVisualization
  \/ Narrate
  \/ SendMessage
  \/ EscapeToTransport

Spec == Init /\ [][Next]_vars

\* ------------------------------------------------------ slow services
\* A language-service call has no deadline: ChatOpenAI is built without a
\* timeout (query_generator.py:43, chatbot.py:38) and the calls are made
\* bare.  The deadline of a call that has not returned passes, and the
\* cycle goes on waiting.
TranslationOverdue ==
  /\ pc = "generate"
  /\ pc' = "translation overdue"
  /\ UNCHANGED <<question, sql_query, query_result, visualization, response,
                 exc, log, purchases, openFigs, cycles, waiting>>

NarrationOverdue ==
  /\ pc = "narrate"
  /\ pc' = "narration overdue"
  /\ UNCHANGED <<question, sql_query, query_result, visualization, response,
                 exc, log, purchases, openFigs, cycles, waiting>>

\* The overdue call returns after all, if it ever does.
LateTranslation == GenerateQueryAt("translation overdue")

LateNarration == NarrateAt("narration overdue")

NextSlow ==
  \/ Next
  \/ TranslationOverdue
  \/ NarrationOverdue
  \/ LateTranslation
  \/ LateNarration

SpecSlow == Init /\ [][NextSlow]_vars

\* ------------------------------------------------------------------ claims
\* Positions of the log holding a call of `op`.
CallsOf(op) == {i \in 1..Len(log) : log[i].op = op}

QueryServices == {"chain.invoke", "custom_chain.run"}

\* Origins of an exception raised inside generate_query.
SynthesisOrigins ==
  {"chain.invoke", "custom_chain.run", "custom_chain.run (fallback)"}

\* The store call of this cycle failed, so execute_query returned an error.
ExecuteReturnedError == \E i \in CallsOf("db.run") : ~log[i].ok

\* generate_query has just ended, by a return or by an exception.
SynthesisJustEnded ==
  /\ pc \in {"execute", "raised"}
  /\ log # <<>>
  /\ log[Len(log)].op \in QueryServices

\* C1: generate_query always returns a query string and never raises,
\* whichever of its language-service calls fail.  Stated as: no exception
\* that started in generate_query is ever propagating.
C1_SynthesizeNeverRaises ==
  ~(pc = "raised" /\ exc.origin \in SynthesisOrigins)

\* C2: for a question without the active keyword whose generic call failed,
\* generate_query has called the fallback exactly once, with the same
\* question, and has returned the fallback's query.
C2_GenericFailureFallsBack ==
  (/\ SynthesisJustEnded
   /\ ~IsActiveQuestion(question)
   /\ \E i \in CallsOf("chain.invoke") : ~log[i].ok)
    => /\ Cardinality(CallsOf("custom_chain.run")) = 1
       /\ \A i \in CallsOf("custom_chain.run") : log[i].q = question
       /\ pc = "execute"
       /\ \A i \in CallsOf("custom_chain.run") :
            log[i].ok /\ sql_query = log[i].sql

\* C3: execute_query never raises; a failure of the store call becomes the
\* returned error string ending in the store's message, and a successful
\* call's result is returned as it is.
C3_ExecuteNeverRaises ==
  /\ exc.origin # "db.run"
  /\ pc = "executed" =>
       \A i \in CallsOf("db.run") :
         /\ log[i].sql = sql_query
         /\ log[i].ok => query_result = log[i].res
         /\ ~log[i].ok =>
              /\ query_result.form = "str"
              /\ query_result.text =
                   <<"Error", " executing query: ", log[i].msg>>

C3_Witness ==
  /\ pc = "executed"
  /\ \E i \in CallsOf("db.run") : ~log[i].ok /\ log[i].msg = "database is locked"

\* C4: the store never runs a statement that is not a read query: such a
\* statement makes execute_query return an error, and the store's purchases
\* are what they were at the start.
C4_OnlyReadsReachStore ==
  /\ \A i \in CallsOf("db.run") : log[i].ok => IsReadQuery(log[i].sql)
  /\ (pc = "executed" /\ ~IsReadQuery(sql_query)) => IsErrorResult(query_result)
  /\ purchases = 1..NumPurchases

\* C5: when execute_query returned an error, the response process_question
\* returns has the apology followed by the error text as its answer, the
\* query generate_query returned as its query text, and no chart.
C5_ErrorResponse ==
  (pc = "returned" /\ ExecuteReturnedError) =>
    \A i \in CallsOf("db.run") :
      /\ response.answer =
           <<ApologyPrefix, "Error", " executing query: ", log[i].msg>>
      /\ i > 1
      /\ log[i - 1].op \in QueryServices
      /\ log[i - 1].ok
      /\ response.sql_query = log[i - 1].sql
      /\ response.visualization = "None"

C5_Witness ==
  /\ pc = "returned"
  /\ ExecuteReturnedError
  /\ response.sql_query.stmt = "INVALID"

\* C6: in a cycle in which execute_query returned an error, no later call of
\* the narration service or of _generate_visualization is made, and no
\* figure is opened.
C6_NoPresentationAfterError ==
  \A i \in CallsOf("db.run") :
    ~log[i].ok =>
      /\ \A j \in 1..Len(log) :
           j > i => log[j].op \notin
                      {"response_chain.run", "_generate_visualization"}
      /\ visualization = NoChart

C6_Witness ==
  /\ pc = "returned"
  /\ ExecuteReturnedError
  /\ HasTimeSeriesKeyword(question)

\* Origins of an exception raised by a language-service call.
ServiceOrigins == SynthesisOrigins \cup {"response_chain.run"}

\* C7: no failure of a language service escapes process_question: no
\* exception of a language-service call is ever propagating out of it, and
\* a failed narration call after a successful execution still ends in a
\* returned response.
C7_NoServiceFailureEscapes ==
  /\ pc = "raised" => exc.origin \notin ServiceOrigins
  /\ \A i \in CallsOf("response_chain.run") : ~log[i].ok => pc = "returned"

\* A table as _generate_visualization sees it: the form and shape of what
\* execute_query returned.
IsTable(result) == result.form \in {"df", "dicts", "tuples"}

\* The call of _generate_visualization has just ended, by a return or by an
\* exception.
VisualizeEnded ==
  /\ log # <<>>
  /\ log[Len(log)].op = "_generate_visualization"

\* C8: for a table of at most 1 row and at most 1 column, whatever chart
\* keywords the question holds, _generate_visualization returns no chart and
\* enters no plotting routine.
C8_ScalarHasNoChart ==
  (/\ VisualizeEnded
   /\ IsTable(query_result)
   /\ query_result.nrows <= 1
   /\ query_result.ncols <= 1)
    => /\ pc = "narrate"
       /\ visualization.kind = "None"
       /\ visualization.routines = <<>>

C8_Witness ==
  /\ pc = "narrate"
  /\ VisualizeEnded
  /\ query_result.form = "df"
  /\ query_result.nrows = 1
  /\ query_result.ncols = 1
  /\ question = {"torendo", "bunpu"}

\* C9: with a comparison keyword and no time-series keyword, a table of
\* exactly 2 columns gets a pie chart and one of 3 or more columns a bar
\* chart, lists of row tuples included.
C9_ComparisonChart ==
  (/\ pc = "narrate"
   /\ HasComparisonKeyword(question)
   /\ ~HasTimeSeriesKeyword(question)
   /\ IsTable(query_result))
    => /\ query_result.ncols = 2 => visualization.kind = "pie"
       /\ query_result.ncols >= 3 => visualization.kind = "bar"

\* C10: the query generate_query returns for a question with the active
\* keyword never reads users.is_active and excludes cancelled users, unless
\* the question asks to include them.
C10_ActiveRule ==
  (pc = "execute" /\ IsActiveQuestion(question))
    => /\ ~sql_query.usesActiveFlag
       /\ sql_query.excludesCancelled \/ Contains(question, "fukumu")

\* The words of the two keyword families, as the claims name them.
TimeSeriesWords == {"suii", "torendo", "henka"}
ComparisonWords == {"hikaku", "wariai", "bunpu"}

\* The results _generate_visualization can make a DataFrame of.
IsBuildable(result) ==
  result.form \in {"df", "dicts"}
    \/ (result.form = "tuples" /\ result.ncols = 1)

\* C13: for a table that is no scalar the chart kind follows the keywords in
\* strict priority: a time-series keyword gives the line chart, also beside
\* a comparison keyword; else a comparison keyword gives the comparison
\* chart; else the bar chart is drawn exactly for at least 2 rows and at
\* least 2 columns; else there is no chart.
C13_KeywordPriority ==
  (/\ VisualizeEnded
   /\ IsBuildable(query_result)
   /\ (query_result.nrows > 1 \/ query_result.ncols > 1))
    => IF question \cap TimeSeriesWords # {}
       THEN /\ visualization.kind = "line"
            /\ visualization.routines = <<"_create_time_series_plot">>
       ELSE IF question \cap ComparisonWords # {}
       THEN /\ visualization.kind \in {"pie", "bar"}
            /\ Head(visualization.routines) = "_create_comparison_plot"
       ELSE IF query_result.nrows >= 2 /\ query_result.ncols >= 2
       THEN /\ visualization.kind = "bar"
            /\ visualization.routines = <<"_create_bar_chart">>
       ELSE visualization = NoChart

\* C14 as claimed: a bar chart of a table of 2 or more columns has the first
\* column as its labels and every other column as a series.
C14_BarFirstColumnLabels ==
  (/\ pc = "narrate"
   /\ visualization.kind = "bar"
   /\ query_result.ncols >= 2)
    => /\ visualization.x = query_result.cols[1]
       /\ visualization.series = Tail(query_result.cols)

\* The columns of a result that hold numbers, in order.
NumberColumns(result) ==
  LET IsNum(c) ==
        \E i \in 1..result.ncols : result.cols[i] = c /\ result.numeric[i]
  IN SelectSeq(result.cols, IsNum)

\* C14 as amended: a bar chart returned for a table of exactly 2 columns has
\* the first column as its labels and the second as its series; a bar chart
\* returned for a table of 3 or more columns has the row index as its
\* labels and the table's numeric columns, the first one included if it is
\* numeric, as its series.
C14_BarLabels ==
  (/\ pc = "narrate"
   /\ visualization.kind = "bar"
   /\ query_result.ncols >= 2)
    => IF query_result.ncols = 2
       THEN /\ visualization.x = query_result.cols[1]
            /\ visualization.series = <<query_result.cols[2]>>
       ELSE /\ visualization.x = RowIndex
            /\ visualization.series = NumberColumns(query_result)
            /\ visualization.series # <<>>

C14_Witness ==
  /\ pc = "narrate"
  /\ question = {"bunpu"}
  /\ cycles = MaxCycles
  /\ openFigs > 0
  /\ \E i \in CallsOf("chain.invoke") : ~log[i].ok
  /\ visualization.kind = "bar"
  /\ query_result.cols = <<"active_users", "month", "purchase_date">>
  /\ visualization.x = RowIndex
  /\ visualization.series = <<"active_users">>

\* The period naming heuristic as the claim reads it: the code's keywords,
\* and the name "month" of its own example.
IsPeriodName(c) == IsDateColumn(c) \/ c = "month"

\* The first period-named column of a header (the header has one).
FirstPeriodColumn(h) ==
  h[CHOOSE i \in 1..Len(h) :
      IsPeriodName(h[i]) /\ \A j \in 1..(i - 1) : ~IsPeriodName(h[j])]

\* C15: a line chart has the first period-named column as its x-axis and
\* every other column as a series; without such a column the x-axis is the
\* row index and all the columns are series.  A table (month, active_users)
\* has month as its x-axis.
C15_LineAxis ==
  (/\ pc = "narrate"
   /\ visualization.kind = "line"
   /\ query_result.form \in {"df", "dicts"})
    => LET h == query_result.cols
           IsOther(c) == c # FirstPeriodColumn(h)
       IN IF \E i \in 1..Len(h) : IsPeriodName(h[i])
          THEN /\ visualization.x = FirstPeriodColumn(h)
               /\ visualization.series = SelectSeq(h, IsOther)
          ELSE /\ visualization.x = RowIndex
               /\ visualization.series = h

\* C19: for a string, an empty list or a list of rows of 2 or more fields
\* _generate_visualization raises nothing and returns no chart, whatever the
\* keywords; only a DataFrame, a list of dicts or a list of single-field
\* rows ever reaches a plotting routine.
C19_UnbuildableHasNoChart ==
  VisualizeEnded =>
    /\ ~IsBuildable(query_result) =>
         /\ pc = "narrate"
         /\ exc = NoExc
         /\ visualization = NoChart
    /\ visualization.routines # <<>> => IsBuildable(query_result)

C19_Witness ==
  /\ pc = "narrate"
  /\ query_result.form = "tuples"
  /\ query_result.ncols = 2
  /\ query_result.nrows = 2
  /\ question = {"torendo", "bunpu"}
  /\ cycles = MaxCycles
  /\ openFigs > 0
  /\ \E i \in CallsOf("chain.invoke") : ~log[i].ok
  /\ visualization = NoChart

\* The words that make a question an "active" one: the katakana word and
\* the latin word in any case.
ActiveWords == {"akutibu", "active", "Active"}

\* C16: a question goes to the custom-prompt path exactly when it holds the
\* katakana word or, in any case, the latin word "active"; then the generic
\* service is never called.  Any other question calls the generic service
\* first, and the custom path only after that call failed.
C16_Routing ==
  log # <<>> =>
    IF question \cap ActiveWords # {}
    THEN /\ log[1].op = "custom_chain.run"
         /\ CallsOf("chain.invoke") = {}
    ELSE /\ log[1].op = "chain.invoke"
         /\ \A i \in CallsOf("custom_chain.run") : i = 2 /\ ~log[1].ok

C16_Witness ==
  /\ pc = "execute"
  /\ question = {"Active"}
  /\ log[1].op = "custom_chain.run"

\* The place of a call in the cycle's order.
Rank(op) ==
  CASE op \in QueryServices -> 1
    [] op = "db.run" -> 2
    [] op = "_generate_visualization" -> 3
    [] op = "response_chain.run" -> 4

\* C17: the calls of a cycle come in the order synthesis, store,
\* visualization, narration, each step after the one before it returned;
\* the store is queried at most once, visualization and narration happen at
\* most once, and synthesis makes at most two language-service calls, the
\* second only as the fallback of a failed generic call.
C17_OrderNoRetries ==
  /\ \A i, j \in 1..Len(log) :
       i < j => /\ Rank(log[i].op) <= Rank(log[j].op)
                /\ Rank(log[i].op) = Rank(log[j].op) =>
                     /\ log[i].op = "chain.invoke"
                     /\ ~log[i].ok
                     /\ log[j].op = "custom_chain.run"
  /\ Cardinality({i \in 1..Len(log) : log[i].op \in QueryServices}) <= 2
  /\ \A i \in 1..Len(log) :
       Rank(log[i].op) > 1 =>
         /\ i > 1
         /\ Rank(log[i - 1].op) = Rank(log[i].op) - 1
         /\ log[i - 1].ok

C17_Witness ==
  /\ pc = "returned"
  /\ Len(log) = 5
  /\ log[5].op = "response_chain.run"

\* C18: every figure a _generate_visualization call opened is closed when
\* the call returns, so no figure is ever left open between the steps of a
\* cycle or after it.
C18_NoFigureLeftOpen ==
  /\ VisualizeEnded =>
       Len(visualization.routines) = visualization.closed
  /\ openFigs = 0

\* C12: a cycle never waits for a language service beyond the call's
\* deadline: at the deadline the call is aborted and the cycle goes on with
\* the fallback or the templated narrative, so it is never found waiting
\* with the deadline behind it.
C12_NeverWaitsPastDeadline ==
  pc \notin {"translation overdue", "narration overdue"}

\* C11: cycles are isolated: a cycle finds the shared state that shapes its
\* response, the store it queries and the plotting library's figures, as a
\* cycle processed alone finds it, whatever other cycles ran before it or
\* between its message's arrival and its processing; no cycle reads what
\* another wrote.
C11_CyclesIsolated ==
  /\ pc \in {"generate", "execute"} => purchases = 1..NumPurchases
  /\ pc \in {"generate", "execute", "executed"} => openFigs = 0

=============================================================================
